---- MODULE Spec2Model ----
(***************************************************************************)
(* State-machine model of cretonne's ir::Function                          *)
(* (lib/codegen/src/ir/function.rs): the declaration tables, the stack     *)
(* limit, the encodings/offsets side tables, clear(), update_encoding()    *)
(* and the InstOffsetIter iterator.                                        *)
(*                                                                         *)
(* Entity handles (StackSlot, GlobalVar, Heap, JumpTable, SigRef, FuncRef, *)
(* Ebb, Inst) are the 0-based indices the arenas hand out; a table is a    *)
(* sequence and handle h names element h + 1.  Option<T> is <<>> (None) or *)
(* <<x>> (Some(x)).                                                        *)
(*                                                                         *)
(* Besides the fields of Function the state holds the last call made on    *)
(* the Function (call), what it returned (ret), the live InstOffsetIter    *)
(* (it) and the items it has yielded so far (items).                       *)
(***************************************************************************)
EXTENDS Integers, Sequences, FiniteSets

\* ------------------------------------------------------------------ bounds

\* Total number of entries over the six declaration arenas.
MaxDecls == 3
\* Number of jump tables.
MaxJumpTables == 2
\* Length of a jump table handed to create_jump_table.
MaxJTLen == 2
\* Total number of EBBs and instructions made in the data-flow graph.
MaxCode == 4
\* Total number of entities (declarations, EBBs, instructions) under Spec.
MaxTotal == 3

\* ------------------------------------------------------------------ values

None == <<>>
Some(x) == <<x>>

\* settings::CallConv
CallConvFast == "fast"
CallConvSystemV == "system_v"

\* ExternalName::default()
DefaultName == "u0:0"
Names == {"%foo"}

\* Signature::new(call_conv): no parameters, no return values.
SignatureNew(cc) == [params |-> <<>>, returns |-> <<>>, call_conv |-> cc]
\* Signature::clear(call_conv), applied to any signature.
SignatureClear(sig, cc) == [params |-> <<>>, returns |-> <<>>, call_conv |-> cc]

\* A signature with parameters and another calling convention.
SigSystemV ==
    [params |-> <<"i32">>, returns |-> <<"i32">>, call_conv |-> CallConvSystemV]
Signatures == {SignatureNew(CallConvFast), SigSystemV}

StackSlotDatas == {"explicit_slot 8", "spill_slot 4"}
GlobalVarDatas == {"vmctx+0", "globalsym %g"}
HeapDatas == {"static 4G", "dynamic gv0"}
ExtFuncDatas == {"sig0 %callee", "sig0 %other"}

\* A jump table created with n placeholder entries.
Placeholders(n) == [i \in 1..n |-> None]
JumpTableDatas == { Placeholders(n) : n \in 0..MaxJTLen }

Opcodes == {"iadd"}
Types == {"i32", "i64"}
\* The data of an instruction and its controlling type variable.
InstDatas == [opcode : Opcodes, ctrl_typevar : Types]

\* isa::Encoding: a (recipe, bits) pair, the recipes numbered from 1.
\* Encoding::default() is the illegal encoding, whose recipe (0 here) is no
\* recipe of any ISA.
DefaultEncoding == [recipe |-> 0, bits |-> 0]
Enc1 == [recipe |-> 1, bits |-> 0]
Enc2 == [recipe |-> 2, bits |-> 0]

\* Result<_, Legalize>
Ok(v) == [tag |-> "Ok", val |-> v]
Err(d) == [tag |-> "Err", val |-> d]
LegalizeExpand == "expand"
LegalizeNarrow == "narrow"

\* A TargetIsa is its encode function, from the instruction's data and
\* controlling type to Ok(Encoding) or Err(Legalize).
IsaKeys == Opcodes \X Types
IsaA == [k \in IsaKeys |-> IF k[2] = "i32" THEN Ok(Enc1) ELSE Ok(Enc2)]
IsaB == [k \in IsaKeys |-> IF k[2] = "i32" THEN Ok(Enc2) ELSE Err(LegalizeExpand)]
IsaC == [k \in IsaKeys |->
            IF k[2] = "i32" THEN Err(LegalizeExpand) ELSE Err(LegalizeNarrow)]
Isas == {IsaA, IsaB, IsaC}

\* An EncInfo is its table of recipe sizes: recipe r (1-based) takes
\* sizing[r] bytes.
EncInfos == { <<2, 4>>, <<4, 2>> }

\* What a call returned.
RetUnit == [tag |-> "Unit", val |-> <<>>]
RetHandle(h) == [tag |-> "Handle", val |-> h]
RetOption(o) == [tag |-> "Option", val |-> o]
RetIter == [tag |-> "Iter", val |-> <<>>]
RetPanic(msg) == [tag |-> "Panic", val |-> msg]

\* ------------------------------------------------------------------ arenas

\* PrimaryMap::push: the handle the next push returns, and the map after it.
NextKey(m) == Len(m)
Push(m, v) == Append(m, v)
\* PrimaryMap / EntityMap: whether k indexes a stored element.
IsValid(m, k) == k \in 0..(Len(m) - 1)

\* EntityMap index: the stored value, or the default past the end.
EMGet(m, k, default) == IF IsValid(m, k) THEN m[k + 1] ELSE default
\* EntityMap index_mut + assignment: grow with defaults up to k, then store.
EMSet(m, k, v, default) ==
    [i \in 1..(IF k + 1 > Len(m) THEN k + 1 ELSE Len(m)) |->
        IF i = k + 1 THEN v ELSE IF i <= Len(m) THEN m[i] ELSE default]

\* JumpTableData::set_entry: an index outside the table is a contract
\* violation; one within it has its entry overwritten.
SetEntryPanics(jtd, index) == ~IsValid(jtd, index)
SetEntry(jtd, index, ebb) == [jtd EXCEPT ![index + 1] = Some(ebb)]

\* ------------------------------------------------------------------- state

VARIABLES
    name,          \* Function::name
    signature,     \* Function::signature
    stack_slots,   \* Function::stack_slots
    stack_limit,   \* Function::stack_limit
    global_vars,   \* Function::global_vars
    heaps,         \* Function::heaps
    jump_tables,   \* Function::jump_tables
    dfg,           \* Function::dfg: signatures, ext_funcs, insts, num_ebbs
    layout,        \* Function::layout: the EBBs in order, each with its insts
    encodings,     \* Function::encodings
    locations,     \* Function::locations
    offsets,       \* Function::offsets
    srclocs,       \* Function::srclocs
    call,          \* the last call: <<operation, arguments...>>
    ret,           \* what the last call returned
    it,            \* the live InstOffsetIter: None or Some(iterator)
    items          \* the items the live iterator has yielded

func == <<name, signature, stack_slots, stack_limit, global_vars, heaps,
          jump_tables, dfg, layout, encodings, locations, offsets, srclocs>>
vars == <<name, signature, stack_slots, stack_limit, global_vars, heaps,
          jump_tables, dfg, layout, encodings, locations, offsets, srclocs,
          call, ret, it, items>>

\* DataFlowGraph::new()
DfgNew == [signatures |-> <<>>, ext_funcs |-> <<>>, insts |-> <<>>, num_ebbs |-> 0]

\* Function::with_name_signature(name, sig)
with_name_signature(n, sig) ==
    /\ name = n
    /\ signature = sig
    /\ stack_slots = <<>>
    /\ stack_limit = None
    /\ global_vars = <<>>
    /\ heaps = <<>>
    /\ jump_tables = <<>>
    /\ dfg = DfgNew
    /\ layout = <<>>
    /\ encodings = <<>>
    /\ locations = <<>>
    /\ offsets = <<>>
    /\ srclocs = <<>>

\* Function::new()
new == with_name_signature(DefaultName, SignatureNew(CallConvFast))

\* No call has been made and no iterator is alive.
Fresh ==
    /\ call = <<"new">>
    /\ ret = RetUnit
    /\ it = None
    /\ items = <<>>

Init ==
    /\ \/ new
       \/ \E n \in Names : with_name_signature(n, SigSystemV)
    /\ Fresh

InitNew == new /\ Fresh

\* A &mut self method needs the Function unborrowed: no InstOffsetIter, which
\* borrows encodings and layout, is alive.
Unborrowed == it = None

DeclSize ==
    Len(stack_slots) + Len(global_vars) + Len(heaps) + Len(jump_tables)
        + Len(dfg.signatures) + Len(dfg.ext_funcs)

\* ----------------------------------------------------------- declarations

\* Function::clear
clear ==
    /\ Unborrowed
    /\ signature' = SignatureClear(signature, CallConvFast)
    /\ stack_slots' = <<>>
    /\ global_vars' = <<>>
    /\ heaps' = <<>>
    /\ jump_tables' = <<>>
    /\ dfg' = DfgNew
    /\ layout' = <<>>
    /\ encodings' = <<>>
    /\ locations' = <<>>
    /\ offsets' = <<>>
    /\ srclocs' = <<>>
    /\ call' = <<"clear">>
    /\ ret' = RetUnit
    /\ UNCHANGED <<name, stack_limit, it, items>>

\* Function::create_jump_table
create_jump_table(data) ==
    /\ Unborrowed
    /\ DeclSize < MaxDecls
    /\ Len(jump_tables) < MaxJumpTables
    /\ jump_tables' = Push(jump_tables, data)
    /\ call' = <<"create_jump_table", data>>
    /\ ret' = RetHandle(NextKey(jump_tables))
    /\ UNCHANGED <<name, signature, stack_slots, stack_limit, global_vars, heaps,
                   dfg, layout, encodings, locations, offsets, srclocs, it, items>>

\* insert_jump_table_entry storing into the newest jump table, whatever jt is.
insert_jump_table_entry_last(jt, index, ebb) ==
    /\ Unborrowed
    /\ call' = <<"insert_jump_table_entry", jt, index, ebb>>
    /\ IF IsValid(jump_tables, jt)
          /\ ~SetEntryPanics(jump_tables[Len(jump_tables)], index)
       THEN /\ jump_tables' =
                 [jump_tables EXCEPT ![Len(jump_tables)] = SetEntry(@, index, ebb)]
            /\ ret' = RetUnit
       ELSE /\ jump_tables' = jump_tables
            /\ ret' = RetPanic("index out of bounds")
    /\ UNCHANGED <<name, signature, stack_slots, stack_limit, global_vars, heaps,
                   dfg, layout, encodings, locations, offsets, srclocs, it, items>>

\* Function::insert_jump_table_entry: jump_tables[jt] panics on a handle that
\* is not in the table, set_entry on an index that is not in the jump table.
insert_jump_table_entry(jt, index, ebb) ==
    /\ Unborrowed
    /\ call' = <<"insert_jump_table_entry", jt, index, ebb>>
    /\ IF IsValid(jump_tables, jt) /\ ~SetEntryPanics(jump_tables[jt + 1], index)
       THEN /\ jump_tables' =
                 [jump_tables EXCEPT ![jt + 1] = SetEntry(@, index, ebb)]
            /\ ret' = RetUnit
       ELSE /\ jump_tables' = jump_tables
            /\ ret' = RetPanic("index out of bounds")
    /\ UNCHANGED <<name, signature, stack_slots, stack_limit, global_vars, heaps,
                   dfg, layout, encodings, locations, offsets, srclocs, it, items>>

\* create_stack_slot storing over the newest slot instead of pushing, so that
\* the handle it returns is one it returned before.
create_stack_slot_reusing(data) ==
    /\ Unborrowed
    /\ DeclSize < MaxDecls
    /\ stack_slots' = IF stack_slots = <<>> THEN <<data>>
                      ELSE [stack_slots EXCEPT ![Len(stack_slots)] = data]
    /\ call' = <<"create_stack_slot", data>>
    /\ ret' = RetHandle(Len(stack_slots') - 1)
    /\ UNCHANGED <<name, signature, stack_limit, global_vars, heaps, jump_tables,
                   dfg, layout, encodings, locations, offsets, srclocs, it, items>>

\* Function::create_stack_slot
create_stack_slot(data) ==
    /\ Unborrowed
    /\ DeclSize < MaxDecls
    /\ stack_slots' = Push(stack_slots, data)
    /\ call' = <<"create_stack_slot", data>>
    /\ ret' = RetHandle(NextKey(stack_slots))
    /\ UNCHANGED <<name, signature, stack_limit, global_vars, heaps, jump_tables,
                   dfg, layout, encodings, locations, offsets, srclocs, it, items>>

\* set_stack_limit returning the limit it was given, not the one it replaced.
set_stack_limit_returning_new(limit) ==
    /\ Unborrowed
    /\ stack_limit' = limit
    /\ call' = <<"set_stack_limit", limit>>
    /\ ret' = RetOption(limit)
    /\ UNCHANGED <<name, signature, stack_slots, global_vars, heaps, jump_tables,
                   dfg, layout, encodings, locations, offsets, srclocs, it, items>>

\* Function::set_stack_limit
set_stack_limit(limit) ==
    /\ Unborrowed
    /\ stack_limit' = limit
    /\ call' = <<"set_stack_limit", limit>>
    /\ ret' = RetOption(stack_limit)
    /\ UNCHANGED <<name, signature, stack_slots, global_vars, heaps, jump_tables,
                   dfg, layout, encodings, locations, offsets, srclocs, it, items>>

\* Function::import_signature
import_signature(sig) ==
    /\ Unborrowed
    /\ DeclSize < MaxDecls
    /\ dfg' = [dfg EXCEPT !.signatures = Push(@, sig)]
    /\ call' = <<"import_signature", sig>>
    /\ ret' = RetHandle(NextKey(dfg.signatures))
    /\ UNCHANGED <<name, signature, stack_slots, stack_limit, global_vars, heaps,
                   jump_tables, layout, encodings, locations, offsets, srclocs,
                   it, items>>

\* Function::import_function
import_function(data) ==
    /\ Unborrowed
    /\ DeclSize < MaxDecls
    /\ dfg' = [dfg EXCEPT !.ext_funcs = Push(@, data)]
    /\ call' = <<"import_function", data>>
    /\ ret' = RetHandle(NextKey(dfg.ext_funcs))
    /\ UNCHANGED <<name, signature, stack_slots, stack_limit, global_vars, heaps,
                   jump_tables, layout, encodings, locations, offsets, srclocs,
                   it, items>>

\* Function::create_global_var
create_global_var(data) ==
    /\ Unborrowed
    /\ DeclSize < MaxDecls
    /\ global_vars' = Push(global_vars, data)
    /\ call' = <<"create_global_var", data>>
    /\ ret' = RetHandle(NextKey(global_vars))
    /\ UNCHANGED <<name, signature, stack_slots, stack_limit, heaps, jump_tables,
                   dfg, layout, encodings, locations, offsets, srclocs, it, items>>

\* Function::create_heap
create_heap(data) ==
    /\ Unborrowed
    /\ DeclSize < MaxDecls
    /\ heaps' = Push(heaps, data)
    /\ call' = <<"create_heap", data>>
    /\ ret' = RetHandle(NextKey(heaps))
    /\ UNCHANGED <<name, signature, stack_slots, stack_limit, global_vars,
                   jump_tables, dfg, layout, encodings, locations, offsets,
                   srclocs, it, items>>

\* ------------------------------------------------- data flow graph, layout

\* The instructions of ebb in the layout's program order (none for an EBB
\* that is not in the layout).
EbbInsts(l, ebb) ==
    LET at == {k \in 1..Len(l) : l[k].ebb = ebb}
    IN  IF at = {} THEN <<>> ELSE l[CHOOSE k \in at : TRUE].insts

InLayout(l, ebb) == \E k \in 1..Len(l) : l[k].ebb = ebb

CodeEntities == dfg.num_ebbs + Len(dfg.insts)

\* DataFlowGraph::make_ebb followed by Layout::append_ebb: a new EBB at the
\* end of the layout.
append_ebb ==
    /\ Unborrowed
    /\ CodeEntities < MaxCode
    /\ dfg' = [dfg EXCEPT !.num_ebbs = @ + 1]
    /\ layout' = Append(layout, [ebb |-> dfg.num_ebbs, insts |-> <<>>])
    /\ call' = <<"append_ebb">>
    /\ ret' = RetHandle(dfg.num_ebbs)
    /\ UNCHANGED <<name, signature, stack_slots, stack_limit, global_vars, heaps,
                   jump_tables, encodings, locations, offsets, srclocs, it, items>>

\* DataFlowGraph::make_inst followed by Layout::append_inst: a new instruction
\* at the end of the EBB at position k of the layout.
append_inst(data, k) ==
    /\ Unborrowed
    /\ CodeEntities < MaxCode
    /\ k \in 1..Len(layout)
    /\ dfg' = [dfg EXCEPT !.insts = Push(@, data)]
    /\ layout' = [layout EXCEPT ![k].insts = Append(@, NextKey(dfg.insts))]
    /\ call' = <<"append_inst", data, layout[k].ebb>>
    /\ ret' = RetHandle(NextKey(dfg.insts))
    /\ UNCHANGED <<name, signature, stack_slots, stack_limit, global_vars, heaps,
                   jump_tables, encodings, locations, offsets, srclocs, it, items>>

\* --------------------------------------------------------------- encodings

\* TargetIsa::encode on the data and the controlling type of inst.
IsaEncode(isa, inst) ==
    isa[<<dfg.insts[inst + 1].opcode, dfg.insts[inst + 1].ctrl_typevar>>]

\* Function::encode: self.dfg[inst] panics on an instruction that is not in
\* the data flow graph.
encode(inst, isa) ==
    /\ call' = <<"encode", inst, isa>>
    /\ ret' = IF IsValid(dfg.insts, inst)
              THEN IsaEncode(isa, inst)
              ELSE RetPanic("index out of bounds")
    /\ UNCHANGED <<name, signature, stack_slots, stack_limit, global_vars, heaps,
                   jump_tables, dfg, layout, encodings, locations, offsets,
                   srclocs, it, items>>

\* update_encoding storing the default encoding when encode fails.
update_encoding_resetting(inst, isa) ==
    /\ Unborrowed
    /\ call' = <<"update_encoding", inst, isa>>
    /\ IF ~IsValid(dfg.insts, inst)
       THEN /\ ret' = RetPanic("index out of bounds")
            /\ encodings' = encodings
       ELSE IF IsaEncode(isa, inst).tag = "Ok"
       THEN /\ encodings' = EMSet(encodings, inst, IsaEncode(isa, inst).val,
                                  DefaultEncoding)
            /\ ret' = Ok(<<>>)
       ELSE /\ encodings' = EMSet(encodings, inst, DefaultEncoding, DefaultEncoding)
            /\ ret' = IsaEncode(isa, inst)
    /\ UNCHANGED <<name, signature, stack_slots, stack_limit, global_vars, heaps,
                   jump_tables, dfg, layout, locations, offsets, srclocs,
                   it, items>>

\* update_encoding pushing the encoding onto the table instead of storing it
\* at inst.
update_encoding_pushing(inst, isa) ==
    /\ Unborrowed
    /\ call' = <<"update_encoding", inst, isa>>
    /\ IF ~IsValid(dfg.insts, inst)
       THEN /\ ret' = RetPanic("index out of bounds")
            /\ encodings' = encodings
       ELSE IF IsaEncode(isa, inst).tag = "Ok"
       THEN /\ encodings' = Append(encodings, IsaEncode(isa, inst).val)
            /\ ret' = Ok(<<>>)
       ELSE /\ encodings' = encodings
            /\ ret' = IsaEncode(isa, inst)
    /\ UNCHANGED <<name, signature, stack_slots, stack_limit, global_vars, heaps,
                   jump_tables, dfg, layout, locations, offsets, srclocs,
                   it, items>>

\* Function::update_encoding
update_encoding(inst, isa) ==
    /\ Unborrowed
    /\ call' = <<"update_encoding", inst, isa>>
    /\ IF ~IsValid(dfg.insts, inst)
       THEN /\ ret' = RetPanic("index out of bounds")
            /\ encodings' = encodings
       ELSE IF IsaEncode(isa, inst).tag = "Ok"
       THEN /\ encodings' = EMSet(encodings, inst, IsaEncode(isa, inst).val,
                                  DefaultEncoding)
            /\ ret' = Ok(<<>>)
       ELSE /\ encodings' = encodings
            /\ ret' = IsaEncode(isa, inst)
    /\ UNCHANGED <<name, signature, stack_slots, stack_limit, global_vars, heaps,
                   jump_tables, dfg, layout, locations, offsets, srclocs,
                   it, items>>

\* ----------------------------------------------------------------- offsets

\* EncInfo::bytes: the size of the encoding's recipe, 0 for an encoding whose
\* recipe the ISA does not have (the default encoding).
Bytes(encinfo, enc) ==
    IF enc.recipe \in 1..Len(encinfo) THEN encinfo[enc.recipe] ELSE 0

\* The encoded size of a sequence of instructions.
RECURSIVE CodeSize(_, _, _)
CodeSize(insts, encs, encinfo) ==
    IF insts = <<>> THEN 0
    ELSE Bytes(encinfo, EMGet(encs, Head(insts), DefaultEncoding))
            + CodeSize(Tail(insts), encs, encinfo)

\* The offset of the EBB at position k of the layout: the size of the code
\* before it.
RECURSIVE EbbStart(_, _, _, _)
EbbStart(l, k, encs, encinfo) ==
    IF k <= 1 THEN 0
    ELSE EbbStart(l, k - 1, encs, encinfo) + CodeSize(l[k - 1].insts, encs, encinfo)

\* binemit::relax_branches: clears the offsets, resizes them to the number of
\* EBBs and stores the offset of every EBB of the layout.
relax_branches(encinfo) ==
    /\ Unborrowed
    /\ offsets' =
           [e \in 1..dfg.num_ebbs |->
               IF InLayout(layout, e - 1)
               THEN EbbStart(layout, CHOOSE k \in 1..Len(layout) : layout[k].ebb = e - 1,
                             encodings, encinfo)
               ELSE 0]
    /\ call' = <<"relax_branches", encinfo>>
    /\ ret' = RetUnit
    /\ UNCHANGED <<name, signature, stack_slots, stack_limit, global_vars, heaps,
                   jump_tables, dfg, layout, encodings, locations, srclocs,
                   it, items>>

\* inst_offsets without its assertion.
inst_offsets_unchecked(ebb, encinfo) ==
    /\ Unborrowed
    /\ offsets = <<>> \/ InLayout(layout, ebb)
    /\ call' = <<"inst_offsets", ebb, encinfo>>
    /\ ret' = RetIter
    /\ it' = Some([encinfo |-> encinfo,
                   offset |-> EMGet(offsets, ebb, 0),
                   ebb |-> ebb,
                   iter |-> EbbInsts(layout, ebb)])
    /\ items' = <<>>
    /\ UNCHANGED func

\* Function::inst_offsets.  The iterator holds the EncInfo, the running
\* offset and the layout's iterator over the instructions of ebb (the EBB and
\* the instructions still to come); its encodings are the Function's, which
\* it borrows.  One iterator is followed at a time.  The EBB is one of the
\* layout's, or any when the assertion fails before the EBB is looked at.
inst_offsets(ebb, encinfo) ==
    /\ Unborrowed
    /\ offsets = <<>> \/ InLayout(layout, ebb)
    /\ call' = <<"inst_offsets", ebb, encinfo>>
    /\ IF offsets = <<>>
       THEN /\ ret' = RetPanic("Code layout must be computed first")
            /\ UNCHANGED <<it, items>>
       ELSE /\ ret' = RetIter
            /\ it' = Some([encinfo |-> encinfo,
                           offset |-> EMGet(offsets, ebb, 0),
                           ebb |-> ebb,
                           iter |-> EbbInsts(layout, ebb)])
            /\ items' = <<>>
    /\ UNCHANGED func

\* next yielding the offset after the instruction, not the one before it.
next_advancing_first ==
    /\ it # None
    /\ call' = <<"next">>
    /\ IF it[1].iter = <<>>
       THEN /\ ret' = RetOption(None)
            /\ UNCHANGED <<it, items>>
       ELSE LET inst == Head(it[1].iter)
                size == Bytes(it[1].encinfo, EMGet(encodings, inst, DefaultEncoding))
                offset == it[1].offset + size
            IN  /\ it' = Some([it[1] EXCEPT !.offset = offset,
                                            !.iter = Tail(it[1].iter)])
                /\ ret' = RetOption(Some(<<offset, inst, size>>))
                /\ items' = Append(items, <<offset, inst, size>>)
    /\ UNCHANGED func

\* InstOffsetIter::next.  The running offset is a u32; the offsets of the
\* Functions made here stay far below 2^32.
next ==
    /\ it # None
    /\ call' = <<"next">>
    /\ IF it[1].iter = <<>>
       THEN /\ ret' = RetOption(None)
            /\ UNCHANGED <<it, items>>
       ELSE LET inst == Head(it[1].iter)
                size == Bytes(it[1].encinfo, EMGet(encodings, inst, DefaultEncoding))
                offset == it[1].offset
            IN  /\ it' = Some([it[1] EXCEPT !.offset = offset + size,
                                            !.iter = Tail(it[1].iter)])
                /\ ret' = RetOption(Some(<<offset, inst, size>>))
                /\ items' = Append(items, <<offset, inst, size>>)
    /\ UNCHANGED func

\* The iterator goes out of scope, which ends its borrow of the Function.
drop_iter ==
    /\ it # None
    /\ it' = None
    /\ items' = <<>>
    /\ call' = <<"drop">>
    /\ ret' = RetUnit
    /\ UNCHANGED func

\* ------------------------------------------------------------------- specs

\* The handles a caller may pass: those of the arena's bound, valid or not.
Handles == 0..(MaxDecls - 1)
\* A caller's EBB: one made in the data flow graph, or the first that is not.
EbbHandles == 0..dfg.num_ebbs
\* The EBBs stored into jump tables.
JTTargets == {0, 1}

\* A caller's handle for table m: one of m's, or the first that is not.
HandlesOf(m) == 0..Len(m)
\* The length of jump table jt (0 for a handle that is not in the table).
JTLen(jt) == IF IsValid(jump_tables, jt) THEN Len(jump_tables[jt + 1]) ELSE 0

NextDecl ==
    \/ clear
    \/ \E data \in JumpTableDatas : create_jump_table(data)
    \/ \E data \in StackSlotDatas : create_stack_slot(data)
    \/ \E limit \in {None} \cup {Some(gv) : gv \in Handles} : set_stack_limit(limit)
    \/ \E sig \in Signatures : import_signature(sig)
    \/ \E data \in ExtFuncDatas : import_function(data)
    \/ \E data \in GlobalVarDatas : create_global_var(data)
    \/ \E data \in HeapDatas : create_heap(data)

SpecDecl == Init /\ [][NextDecl]_vars

NextJT ==
    \/ clear
    \/ \E data \in JumpTableDatas : create_jump_table(data)
    \/ \E jt \in HandlesOf(jump_tables) :
         \E index \in 0..JTLen(jt), ebb \in JTTargets :
           insert_jump_table_entry(jt, index, ebb)

SpecJT == InitNew /\ [][NextJT]_vars

NextStackLimit ==
    \/ clear
    \/ \E data \in GlobalVarDatas : create_global_var(data)
    \/ \E limit \in {None} \cup {Some(gv) : gv \in 0..(Len(global_vars) - 1)} :
           set_stack_limit(limit)

SpecStackLimit == Init /\ [][NextStackLimit]_vars

NextEnc ==
    \/ clear
    \/ append_ebb
    \/ \E data \in InstDatas, k \in 1..Len(layout) : append_inst(data, k)
    \/ \E inst \in HandlesOf(dfg.insts), isa \in Isas : encode(inst, isa)
    \/ \E inst \in HandlesOf(dfg.insts), isa \in Isas : update_encoding(inst, isa)

SpecEnc == InitNew /\ [][NextEnc]_vars

NextOffsets ==
    \/ clear
    \/ append_ebb
    \/ \E data \in InstDatas, k \in 1..Len(layout) : append_inst(data, k)
    \/ \E inst \in 0..(Len(dfg.insts) - 1), isa \in Isas : update_encoding(inst, isa)
    \/ \E encinfo \in EncInfos : relax_branches(encinfo)
    \/ \E ebb \in EbbHandles, encinfo \in EncInfos : inst_offsets(ebb, encinfo)
    \/ next
    \/ drop_iter

SpecOffsets == InitNew /\ [][NextOffsets]_vars

\* Every operation, on a Function of at most MaxTotal entities.
Room == DeclSize + CodeEntities < MaxTotal

Next ==
    \/ clear
    \/ Room /\ \E data \in JumpTableDatas : create_jump_table(data)
    \/ \E jt \in HandlesOf(jump_tables) :
         \E index \in 0..JTLen(jt), ebb \in JTTargets :
           insert_jump_table_entry(jt, index, ebb)
    \/ Room /\ \E data \in StackSlotDatas : create_stack_slot(data)
    \/ \E limit \in {None} \cup {Some(gv) : gv \in 0..(Len(global_vars) - 1)} :
           set_stack_limit(limit)
    \/ Room /\ \E sig \in Signatures : import_signature(sig)
    \/ Room /\ \E data \in ExtFuncDatas : import_function(data)
    \/ Room /\ \E data \in GlobalVarDatas : create_global_var(data)
    \/ Room /\ \E data \in HeapDatas : create_heap(data)
    \/ Room /\ append_ebb
    \/ Room /\ \E data \in InstDatas, k \in 1..Len(layout) : append_inst(data, k)
    \/ \E inst \in HandlesOf(dfg.insts), isa \in Isas : encode(inst, isa)
    \/ \E inst \in HandlesOf(dfg.insts), isa \in Isas : update_encoding(inst, isa)
    \/ \E encinfo \in EncInfos : relax_branches(encinfo)
    \/ \E ebb \in EbbHandles, encinfo \in EncInfos : inst_offsets(ebb, encinfo)
    \/ next
    \/ drop_iter

Spec == Init /\ [][Next]_vars

\* ------------------------------------------------------------------ claims

\* C1: after clear() the Function is in the state of a freshly constructed
\* one (every table empty, stack limit None, the Fast calling convention),
\* whatever calls came before; only the name is kept.
C1_ClearYieldsFreshState ==
    call[1] = "clear" =>
        /\ signature = SignatureNew(CallConvFast)
        /\ stack_slots = <<>>
        /\ stack_limit = None
        /\ global_vars = <<>>
        /\ heaps = <<>>
        /\ jump_tables = <<>>
        /\ dfg = DfgNew
        /\ layout = <<>>
        /\ encodings = <<>>
        /\ locations = <<>>
        /\ offsets = <<>>
        /\ srclocs = <<>>

\* C2: when set_stack_limit is only given handles that create_global_var
\* returned, stack_limit is None or a handle of an entry of global_vars.
C2_StackLimitValid ==
    stack_limit = None \/ IsValid(global_vars, stack_limit[1])

\* C3: when the ISA's encode returns a legalization directive for inst,
\* update_encoding(inst, isa) returns that directive as an error and leaves
\* the encodings table, and the rest of the Function, as it was.
C3_EncodeFailureKeepsEncodings ==
    [][ LET inst == call'[2]
            res == call'[3][<<dfg.insts[inst + 1].opcode,
                              dfg.insts[inst + 1].ctrl_typevar>>]
        IN  ( /\ call'[1] = "update_encoding"
              /\ IsValid(dfg.insts, inst)
              /\ res.tag = "Err" )
            => /\ ret' = res
               /\ ret'.val \in {LegalizeExpand, LegalizeNarrow}
               /\ encodings' = encodings
               /\ func' = func ]_vars

\* C3's case: update_encoding failed on an instruction whose encoding had
\* been assigned, and the encoding is still there.
C3_Witness ==
    /\ call[1] = "update_encoding"
    /\ ret.tag = "Err"
    /\ EMGet(encodings, call[2], DefaultEncoding) = Enc1

\* The triples InstOffsetIter yields for the first n of insts from offset
\* start: each instruction with the offset before it and its encoded size.
ExpectedItems(insts, n, start, encs, encinfo) ==
    [k \in 1..n |->
        <<start + CodeSize(SubSeq(insts, 1, k - 1), encs, encinfo),
          insts[k],
          Bytes(encinfo, EMGet(encs, insts[k], DefaultEncoding))>>]

\* C4: the items of inst_offsets(ebb, encinfo) are one triple (offset, inst,
\* size) per instruction of ebb in the layout's order, size being encinfo's
\* size of the instruction's encoding (0 if unencoded), the first offset the
\* stored offset of ebb and every later offset the previous offset plus the
\* previous size; the iterator is exhausted exactly after the last of them.
C4_InstOffsetsItems ==
    it # None =>
        LET insts == EbbInsts(layout, it[1].ebb)
            start == EMGet(offsets, it[1].ebb, 0)
        IN  /\ Len(items) <= Len(insts)
            /\ items = ExpectedItems(insts, Len(items), start, encodings,
                                     it[1].encinfo)
            /\ it[1].iter = SubSeq(insts, Len(items) + 1, Len(insts))
            /\ (call[1] = "inst_offsets" /\ ret.tag = "Iter") =>
                   /\ it[1].ebb = call[2]
                   /\ it[1].encinfo = call[3]
                   /\ items = <<>>
            /\ (call[1] = "next" /\ ret = RetOption(None)) => Len(items) = Len(insts)
            /\ (call[1] = "next" /\ ret # RetOption(None)) =>
                   /\ items # <<>>
                   /\ ret = RetOption(Some(items[Len(items)]))

\* C4's case: a block at offset 0 whose three instructions take 2, 4 and 2
\* bytes has been iterated to exhaustion.
C4_Witness ==
    /\ call[1] = "next"
    /\ ret = RetOption(None)
    /\ items = << <<0, 0, 2>>, <<2, 1, 4>>, <<6, 2, 2>> >>

\* C5: inst_offsets panics, and makes no iterator, when the offsets table is
\* empty, and returns an iterator only when it is not.
C5_InstOffsetsNeedsOffsets ==
    [][ call'[1] = "inst_offsets" =>
          /\ ret'.tag \in {"Panic", "Iter"}
          /\ (offsets = <<>>) <=> (ret'.tag = "Panic")
          /\ ret'.tag = "Panic" => it' = None
          /\ ret'.tag = "Iter" => it' # None ]_vars

\* C5's case: inst_offsets was called on a Function that has EBBs and
\* instructions but no offsets, and panicked.
C5_Witness ==
    /\ call[1] = "inst_offsets"
    /\ ret.tag = "Panic"
    /\ layout # <<>>
    /\ dfg.insts # <<>>

\* Every element of table before is at the same handle in table after.
Preserved(before, after) ==
    /\ Len(after) >= Len(before)
    /\ \A i \in 1..Len(before) : after[i] = before[i]

\* The call returned the handle past the last of before, which resolves to
\* data in after.
Declared(before, after, data, r) ==
    /\ r = RetHandle(Len(before))
    /\ Len(after) = Len(before) + 1
    /\ after[Len(after)] = data

\* C7: a call other than clear leaves every handle of the four declaration
\* tables resolving to the value it resolved to, and a create_* call returns
\* a handle that no earlier entry has, resolving to the data it was given.
C7_HandleStability ==
    [][ /\ call'[1] # "clear" =>
            /\ Preserved(stack_slots, stack_slots')
            /\ Preserved(global_vars, global_vars')
            /\ Preserved(heaps, heaps')
            /\ Preserved(jump_tables, jump_tables')
        /\ call'[1] = "create_stack_slot" =>
            Declared(stack_slots, stack_slots', call'[2], ret')
        /\ call'[1] = "create_global_var" =>
            Declared(global_vars, global_vars', call'[2], ret')
        /\ call'[1] = "create_heap" =>
            Declared(heaps, heaps', call'[2], ret')
        /\ call'[1] = "create_jump_table" =>
            Declared(jump_tables, jump_tables', call'[2], ret') ]_vars

\* C7's case: a second stack slot, with other data than the first, has been
\* declared while other tables hold entries.
C7_Witness ==
    /\ call[1] = "create_stack_slot"
    /\ Len(stack_slots) = 2
    /\ stack_slots[1] # stack_slots[2]
    /\ heaps # <<>>

\* C8: insert_jump_table_entry(jt, i, B) with i within jump table jt stores B
\* at entry i and changes no length, no other entry of jt and no other jump
\* table; with i outside jt it panics and stores nothing.
C8_JumpTableRoundtrip ==
    [][ call'[1] = "insert_jump_table_entry" =>
          LET jt == call'[2]
              i == call'[3]
              B == call'[4]
          IN  IF IsValid(jump_tables, jt) /\ i \in 0..(Len(jump_tables[jt + 1]) - 1)
              THEN /\ ret' = RetUnit
                   /\ Len(jump_tables') = Len(jump_tables)
                   /\ \A t \in 1..Len(jump_tables) :
                        /\ Len(jump_tables'[t]) = Len(jump_tables[t])
                        /\ \A k \in 1..Len(jump_tables[t]) :
                             jump_tables'[t][k] =
                                 IF t = jt + 1 /\ k = i + 1 THEN Some(B)
                                 ELSE jump_tables[t][k]
              ELSE /\ ret'.tag = "Panic"
                   /\ jump_tables' = jump_tables ]_vars

\* C8's case: an entry of the first of two jump tables has been stored, next
\* to an entry stored earlier.
C8_Witness ==
    /\ call[1] = "insert_jump_table_entry"
    /\ ret = RetUnit
    /\ call[2] = 0
    /\ Len(jump_tables) = 2
    /\ Len(jump_tables[1]) = 2
    /\ jump_tables[1][1] # None
    /\ jump_tables[1][2] # None
    /\ jump_tables[1][1] # jump_tables[1][2]
    /\ jump_tables[2] # <<>>

\* C9: set_stack_limit(x) returns the stack limit in effect before the call
\* and leaves stack_limit at x; the limit in effect is None on a fresh
\* Function and is changed by no other call.
C9_StackLimitSwap ==
    /\ [](call[1] = "new" => stack_limit = None)
    /\ [][ IF call'[1] = "set_stack_limit"
           THEN /\ ret' = RetOption(stack_limit)
                /\ stack_limit' = call'[2]
           ELSE stack_limit' = stack_limit ]_vars

\* C9's case: set_stack_limit(None) returned Some(G2), the limit a call
\* before it had set.
C9_Witness ==
    /\ call = <<"set_stack_limit", None>>
    /\ ret = RetOption(Some(1))
    /\ Len(global_vars) = 2

\* C10: when the ISA's encode succeeds for inst with encoding E,
\* update_encoding(inst, isa) returns Ok(()) and stores E at inst, changing
\* no other entry of the encodings table and no other field; encode(inst,
\* isa) returns the ISA's result and changes nothing.
C10_EncodeSuccessStoresEncoding ==
    [][ LET inst == call'[2]
            res == call'[3][<<dfg.insts[inst + 1].opcode,
                              dfg.insts[inst + 1].ctrl_typevar>>]
        IN  /\ ( /\ call'[1] = "update_encoding"
                 /\ IsValid(dfg.insts, inst)
                 /\ res.tag = "Ok" )
               => /\ ret' = Ok(<<>>)
                  /\ EMGet(encodings', inst, DefaultEncoding) = res.val
                  /\ \A j \in 0..MaxCode :
                       j # inst => EMGet(encodings', j, DefaultEncoding)
                                       = EMGet(encodings, j, DefaultEncoding)
                  /\ UNCHANGED <<name, signature, stack_slots, stack_limit,
                                 global_vars, heaps, jump_tables, dfg, layout,
                                 locations, offsets, srclocs>>
            /\ (call'[1] = "encode" /\ IsValid(dfg.insts, inst))
               => /\ ret' = res
                  /\ func' = func ]_vars

\* C10's case: update_encoding stored an encoding for the first instruction
\* while a later instruction holds another one.
C10_Witness ==
    /\ call[1] = "update_encoding"
    /\ ret = Ok(<<>>)
    /\ call[2] = 0
    /\ Len(encodings) >= 2
    /\ encodings[1] = Enc2
    /\ encodings[2] = Enc1

====
